---- MODULE Spec2Model ----
(***************************************************************************)
(* Model of the SwachhMap report API: the route handlers of                *)
(* /api/report (POST, GET list) and /api/report/[id] (GET, PATCH, DELETE), *)
(* the data-access functions they call, the image host and the geocoder.   *)
(* Every handler is a sequence of steps, one per await point of the code.  *)
(*                                                                         *)
(* Environment: uploadImage, deleteImage and geocodeAddress may fail at    *)
(* every call, createReport and updateReport may throw; connectToDatabase  *)
(* and the reads succeed, except findById on an id it cannot cast.         *)
(* Each request slot logs the calls its handler made (connects, reads,     *)
(* writes, uploadCalls, deleteCalls, dal, dalData, returned) and the       *)
(* database and image host as they were when the request arrived (pre,     *)
(* preHosted).                                                             *)
(***************************************************************************)
EXTENDS Integers, Sequences, FiniteSets, TLC

\* ------------------------------------------------------------------ bounds
MaxImages == 2     \* longest newImages list of a request
MaxRequests == 2   \* requests served over a run
MaxLen == 3        \* longest page / limit query string

\* ------------------------------------------------------------- JS values
UNDEF == "<undefined>"

\* JS truthiness of a string-or-undefined value
Falsy(x) == x \in {UNDEF, ""}

\* an array that may be missing from the body
NoList == [def |-> FALSE, items |-> <<>>]
List(s) == [def |-> TRUE, items |-> s]

Range(s) == {s[k] : k \in 1..Len(s)}

\* sequences of length 0..n over S
RECURSIVE SeqsUpTo(_, _)
SeqsUpTo(S, n) ==
  IF n = 0 THEN {<<>>}
  ELSE LET shorter == SeqsUpTo(S, n - 1)
       IN shorter \cup {Append(s, x) : s \in {t \in shorter : Len(t) = n - 1},
                                        x \in S}

\* image payloads of a request: img1, img2, ... in this order
Payload(n) == "img" \o ToString(n)
ImageLists == {[k \in 1..n |-> Payload(k)] : n \in 0..MaxImages}

Users == {"u1", "u2"}
PLACEHOLDER == "placeholder-user-id"
DUMMY == "000000000000000000000001"

ReportId(n) == "r" \o ToString(n)
PublicId(n) == "p" \o ToString(n)
SecureUrl(pid) == "https://img/" \o pid

\* the ids a client may put in the path
PathIds == {"", "undefined", "null"} \cup {ReportId(n) : n \in 1..MaxRequests - 1}

Methods == {"POST", "GET", "PATCH", "DELETE"}

\* ---------------------------------------------------------------- state
VARIABLES
  reports,   \* the report collection: id -> document
  hosted,    \* the image host: public id -> payload
  nextId,    \* number of documents created so far
  nextPid,   \* number of images uploaded so far
  served,    \* number of requests accepted so far
  req        \* per request slot: the handler's position, locals and call log

vars == <<reports, hosted, nextId, nextPid, served, req>>

Procs == {1, 2}

EmptyDoc == [title |-> "", description |-> "", category |-> "", location |-> UNDEF,
             imageUrl |-> "", images |-> <<>>, createdBy |-> "",
             resolved |-> FALSE, resolvedAt |-> UNDEF, resolvedBy |-> UNDEF]

NotFound == [found |-> FALSE, doc |-> EmptyDoc]
Found(d) == [found |-> TRUE, doc |-> d]

Idle == [method |-> "NONE", pc |-> "idle", id |-> "", header |-> UNDEF,
         userId |-> UNDEF,
         title |-> UNDEF, description |-> UNDEF, category |-> UNDEF,
         location |-> UNDEF, address |-> UNDEF,
         newImages |-> NoList, imagesToDelete |-> NoList,
         pageParam |-> <<>>, limitParam |-> <<>>,
         finalLocation |-> UNDEF, report |-> NotFound,
         uploaded |-> <<>>, i |-> 1,
         status |-> 0, respImageUrl |-> UNDEF, via |-> "",
         connects |-> 0, reads |-> 0, writes |-> 0,
         uploadCalls |-> 0, deleteCalls |-> <<>>,
         dal |-> "", dalData |-> <<>>, returned |-> "",
         pre |-> <<>>, preHosted |-> <<>>]

Init ==
  /\ reports = <<>>
  /\ hosted = <<>>
  /\ nextId = 0
  /\ nextPid = 0
  /\ served = 0
  /\ req = [p \in Procs |-> Idle]

\* ------------------------------------------------------------ plumbing
Put(p, r) == req' = [req EXCEPT ![p] = r]

\* NextResponse.json(..., { status }): the handler returns
Respond(r, code, why) == [r EXCEPT !.pc = "done", !.status = code, !.via = why]

\* restriction of a function to its domain minus one key
Without(f, k) == [x \in DOMAIN f \ {k} |-> f[x]]
With(f, k, v) == [x \in DOMAIN f \cup {k} |-> IF x = k THEN v ELSE f[x]]

\* ------------------------------------------------------ image host adapter
\* uploadImage(payload): a new asset under a fresh public id
UploadResult(n) == [url |-> SecureUrl(PublicId(n)), publicId |-> PublicId(n)]

\* deleteImage(publicId), success: the asset is gone (unknown ids: no change)
HostAfterDelete(h, pid) == IF pid \in DOMAIN h THEN Without(h, pid) ELSE h

\* a deleteImage call of request r has returned (ok) or thrown; the loop goes on
DeleteCalled(r, pid, ok) ==
  [r EXCEPT !.deleteCalls = Append(@, [publicId |-> pid, ok |-> ok]), !.i = @ + 1]

\* ------------------------------------------------------------- geocoder
\* geocodeAddress(text), success
Geocode(address) == "geo:" \o address

\* --------------------------------------------------------- a request arrives
\* Only one request runs at a time in Spec (single-request-per-invocation).
Request(p) ==
  /\ req[p].pc = "idle"
  /\ served < MaxRequests
  /\ served' = served + 1
  /\ \E m \in Methods, id \in PathIds, u \in Users \cup {UNDEF} :
       /\ m = "POST" => id = "" /\ u # "u2"
       /\ m = "GET" => u = UNDEF
       /\ Put(p, [Idle EXCEPT !.method = m, !.pc = "connect", !.id = id,
                              !.header = u, !.pre = reports,
                              !.preHosted = hosted])
  /\ UNCHANGED <<reports, hosted, nextId, nextPid>>

\* await connectToDatabase(): the first statement of every handler
FirstStep(m) == IF m \in {"POST", "LIST"} THEN "parse" ELSE "checkId"

Connect(p) ==
  /\ req[p].pc = "connect"
  /\ Put(p, [req[p] EXCEPT !.connects = @ + 1, !.pc = FirstStep(req[p].method)])
  /\ UNCHANGED <<reports, hosted, nextId, nextPid, served>>

\* the response has been sent; the slot is free again
Finish(p) ==
  /\ req[p].pc = "done"
  /\ Put(p, Idle)
  /\ UNCHANGED <<reports, hosted, nextId, nextPid, served>>

\* =================================================================== POST
validCategories == {"garbage", "waterlogging", "other"}

Trim(s) == IF s = " T1 " THEN "T1" ELSE IF s = " D1 " THEN "D1" ELSE s

\* lines 19-25: required fields
PostMissing(r) ==
  \/ Falsy(r.title) \/ Falsy(r.description) \/ Falsy(r.category)
  \/ ~r.newImages.def
  \/ (Falsy(r.location) /\ Falsy(r.address))

\* lines 19-34: 400 or 0 (passes)
PostValidate(r) ==
  IF PostMissing(r) THEN 400
  ELSE IF r.category \notin validCategories THEN 400
  ELSE 0

\* lines 38-42: header or placeholder, the placeholder replaced by a dummy id
PostUserId(h) ==
  LET u == IF Falsy(h) THEN PLACEHOLDER ELSE h
  IN IF u = PLACEHOLDER THEN DUMMY ELSE u

NeedsGeocode(r) == ~Falsy(r.address) /\ Falsy(r.location)

PostBodies ==
  [title : {UNDEF, " T1 "}, description : {UNDEF, " D1 "},
   category : {UNDEF, "garbage", "bogus"},
   location : {UNDEF, "L1"}, address : {UNDEF, "A1"},
   newImages : {NoList} \cup {List(s) : s \in ImageLists}]

\* await request.json(), validation, user id
PostParse(p) ==
  /\ req[p].pc = "parse" /\ req[p].method = "POST"
  /\ \E b \in PostBodies :
       LET r == [req[p] EXCEPT !.title = b.title, !.description = b.description,
                               !.category = b.category, !.location = b.location,
                               !.address = b.address, !.newImages = b.newImages,
                               !.finalLocation = b.location]
       IN IF PostValidate(r) # 0
          THEN Put(p, Respond(r, PostValidate(r), "validation"))
          ELSE Put(p, [r EXCEPT !.userId = PostUserId(r.header),
                                !.pc = IF NeedsGeocode(r) THEN "geocode"
                                       ELSE "upload"])
  /\ UNCHANGED <<reports, hosted, nextId, nextPid, served>>

\* lines 47-57 (POST) and 150-160 (PATCH): await geocodeAddress(address)
GeocodeStep(p) ==
  /\ req[p].pc = "geocode"
  /\ \E ok \in BOOLEAN :
       IF ok
       THEN Put(p, [req[p] EXCEPT !.finalLocation = Geocode(req[p].address),
                                  !.pc = IF req[p].method = "PATCH"
                                         THEN "deleteOld" ELSE "upload"])
       ELSE Put(p, Respond(req[p], 400, "geocode"))
  /\ UNCHANGED <<reports, hosted, nextId, nextPid, served>>

\* where the handler goes when the upload loop is over
AfterUploads(m) == IF m = "POST" THEN "create" ELSE "update"

\* lines 62-68 (POST) and 176-183 (PATCH): one iteration of the upload loop
UploadStep(p) ==
  LET r == req[p] IN
  /\ r.pc = "upload"
  /\ IF r.i > Len(r.newImages.items)
     THEN /\ Put(p, [r EXCEPT !.pc = AfterUploads(r.method), !.i = 1])
          /\ UNCHANGED <<hosted, nextPid>>
     ELSE \/ /\ hosted' = With(hosted, PublicId(nextPid + 1), r.newImages.items[r.i])
             /\ nextPid' = nextPid + 1
             /\ Put(p, [r EXCEPT !.uploaded = Append(@, UploadResult(nextPid + 1)),
                                 !.uploadCalls = @ + 1, !.i = @ + 1])
          \/ /\ Put(p, [r EXCEPT !.uploadCalls = @ + 1, !.pc = "cleanup", !.i = 1])
             /\ UNCHANGED <<hosted, nextPid>>
  /\ UNCHANGED <<reports, nextId, served>>

\* a cleanup loop that starts one image too late
CleanupTargets_SkipFirst(r) == SubSeq(r.uploaded, 2, Len(r.uploaded))

\* the images the cleanup loop walks over
CleanupTargets(r) == r.uploaded

\* lines 69-83 (POST) and 184-198 (PATCH): one iteration of the cleanup loop,
\* a failed deleteImage is caught and logged
CleanupStep(p) ==
  LET r == req[p] IN
  /\ r.pc = "cleanup"
  /\ IF r.i > Len(CleanupTargets(r))
     THEN /\ Put(p, Respond(r, 500, "upload"))
          /\ UNCHANGED hosted
     ELSE LET pid == CleanupTargets(r)[r.i].publicId
          IN \/ /\ hosted' = HostAfterDelete(hosted, pid)
                /\ Put(p, DeleteCalled(r, pid, TRUE))
             \/ /\ UNCHANGED hosted
                /\ Put(p, DeleteCalled(r, pid, FALSE))
  /\ UNCHANGED <<reports, nextId, nextPid, served>>

\* the last image taken as the main image
MainImageUrl_Last(images) ==
  IF Len(images) > 0 THEN images[Len(images)].url ELSE ""

\* lines 87-95: the document handed to createReport
MainImageUrl(images) == IF Len(images) > 0 THEN images[1].url ELSE ""

ReportData(r) ==
  [title |-> Trim(r.title), description |-> Trim(r.description),
   category |-> r.category, location |-> r.finalLocation,
   imageUrl |-> MainImageUrl(r.uploaded), images |-> r.uploaded,
   createdBy |-> r.userId]

\* createReport(reportData): new Report(reportData).save(); schema defaults
SavedReport(data) ==
  [title |-> data.title, description |-> data.description,
   category |-> data.category, location |-> data.location,
   imageUrl |-> data.imageUrl, images |-> data.images,
   createdBy |-> data.createdBy,
   resolved |-> FALSE, resolvedAt |-> UNDEF, resolvedBy |-> UNDEF]

\* lines 98-118: await createReport(reportData); a throw ends in the catch
CreateStep(p) ==
  LET r == req[p]
      data == ReportData(r)
      called == [r EXCEPT !.dal = "createReport", !.dalData = data, !.writes = @ + 1]
  IN
  /\ r.pc = "create"
  /\ \/ /\ reports' = With(reports, ReportId(nextId + 1), SavedReport(data))
        /\ nextId' = nextId + 1
        /\ Put(p, [Respond(called, 201, "created") EXCEPT
                     !.id = ReportId(nextId + 1),
                     !.respImageUrl = SavedReport(data).imageUrl])
     \/ /\ Put(p, Respond(called, 500, "exception"))
        /\ UNCHANGED <<reports, nextId>>
  /\ UNCHANGED <<hosted, nextPid, served>>

\* ============================================================== GET list
\* the characters of a page / limit query value
Chars == {"-", "0", "1", "5"}
QueryValues == SeqsUpTo(Chars, MaxLen)

IsDigit(c) == c \in {"0", "1", "5"}
DigitValue(c) == IF c = "0" THEN 0 ELSE IF c = "1" THEN 1 ELSE 5

RECURSIVE LeadingDigits(_)
LeadingDigits(s) ==
  IF s = <<>> \/ ~IsDigit(Head(s)) THEN <<>>
  ELSE <<Head(s)>> \o LeadingDigits(Tail(s))

RECURSIVE DigitsValue(_, _)
DigitsValue(ds, acc) ==
  IF ds = <<>> THEN acc ELSE DigitsValue(Tail(ds), 10 * acc + DigitValue(Head(ds)))

NaN == [nan |-> TRUE, val |-> 0]

\* parseInt(text): an optional sign, then the longest run of digits; NaN when
\* there is none (a missing parameter is parseInt(null), NaN as well)
ParseInt(s) ==
  LET neg == s # <<>> /\ Head(s) = "-"
      ds == LeadingDigits(IF neg THEN Tail(s) ELSE s)
  IN IF ds = <<>> THEN NaN
     ELSE [nan |-> FALSE, val |-> IF neg THEN 0 - DigitsValue(ds, 0)
                                  ELSE DigitsValue(ds, 0)]

DefaultPage == 1
DefaultLimit == 20
LimitCeiling == 100

\* x || d: NaN and 0 are falsy
OrDefault(x, d) == IF x.nan \/ x.val = 0 THEN d ELSE x.val

\* lines 132-133
PageOf(s) == OrDefault(ParseInt(s), DefaultPage)
LimitOf(s) == OrDefault(ParseInt(s), DefaultLimit)

\* line 138
ListInvalid(page, limit) == page < 1 \/ limit < 1 \/ limit > LimitCeiling

RequestList(p) ==
  /\ req[p].pc = "idle"
  /\ served < MaxRequests
  /\ served' = served + 1
  /\ Put(p, [Idle EXCEPT !.method = "LIST", !.pc = "connect", !.pre = reports,
                         !.preHosted = hosted])
  /\ UNCHANGED <<reports, hosted, nextId, nextPid>>

\* lines 131-146: the query parameters, the range check, the options
ListParse(p) ==
  /\ req[p].pc = "parse" /\ req[p].method = "LIST"
  /\ \E pg \in QueryValues, lm \in QueryValues :
       LET r == [req[p] EXCEPT !.pageParam = pg, !.limitParam = lm] IN
       IF ListInvalid(PageOf(pg), LimitOf(lm))
       THEN Put(p, Respond(r, 400, "range"))
       ELSE Put(p, [r EXCEPT !.pc = "query",
                             !.dalData = [page |-> PageOf(pg), limit |-> LimitOf(lm)]])
  /\ UNCHANGED <<reports, hosted, nextId, nextPid, served>>

\* lines 151-169: await getAllReports(options)
ListQuery(p) ==
  /\ req[p].pc = "query"
  /\ Put(p, Respond([req[p] EXCEPT !.dal = "getAllReports", !.reads = @ + 1],
                    200, "ok"))
  /\ UNCHANGED <<reports, hosted, nextId, nextPid, served>>

\* ======================================================= /api/report/[id]
\* lines 20 and 97: the id check of GET and PATCH
InvalidId(id) == Falsy(id) \/ id = "undefined" \/ id = "null"

\* line 264: the id check of DELETE
DeleteInvalidId(id) == Falsy(id)

\* lines 109 and 269: header or placeholder
HeaderUserId(h) == IF Falsy(h) THEN PLACEHOLDER ELSE h

\* getReportById(id): Report.findById(id); null when there is no such document
GetReportById(id) == IF id \in DOMAIN reports THEN Found(reports[id]) ELSE NotFound

\* an id findById cannot cast to a document id: the query may also reject
Uncastable(id) == id \in {"undefined", "null"}

\* lines 129 and 278: the ownership check
IsOwner(doc, userId) == doc.createdBy = userId

\* -------------------------------------------------------------------- GET
\* lines 15-25
GetCheckId(p) ==
  /\ req[p].pc = "checkId" /\ req[p].method = "GET"
  /\ IF InvalidId(req[p].id)
     THEN Put(p, Respond(req[p], 400, "id"))
     ELSE Put(p, [req[p] EXCEPT !.pc = "load"])
  /\ UNCHANGED <<reports, hosted, nextId, nextPid, served>>

\* lines 28-74
GetLoad(p) ==
  LET r == [req[p] EXCEPT !.reads = @ + 1, !.report = GetReportById(req[p].id)] IN
  /\ req[p].pc = "load" /\ req[p].method = "GET"
  /\ IF ~r.report.found
     THEN Put(p, Respond(r, 404, "absent"))
     ELSE Put(p, [Respond(r, 200, "ok") EXCEPT
                    !.respImageUrl = r.report.doc.imageUrl])
  /\ UNCHANGED <<reports, hosted, nextId, nextPid, served>>

\* ------------------------------------------------------------------ PATCH
\* lines 94-102
PatchCheckId(p) ==
  /\ req[p].pc = "checkId" /\ req[p].method = "PATCH"
  /\ IF InvalidId(req[p].id)
     THEN Put(p, Respond(req[p], 400, "id"))
     ELSE Put(p, [req[p] EXCEPT !.pc = "parse"])
  /\ UNCHANGED <<reports, hosted, nextId, nextPid, served>>

\* the public ids a client knows of: those of the stored reports' images
KnownPids == UNION {{reports[id].images[k].publicId : k \in 1..Len(reports[id].images)}
                    : id \in DOMAIN reports}

\* imagesToDelete of a request: missing, empty, or the images of a stored report
DeleteLists ==
  {NoList, List(<<>>)}
  \cup {List(<<reports[id].images[1].publicId>>)
        : id \in {x \in DOMAIN reports : Len(reports[x].images) > 0}}
  \cup {List([k \in 1..Len(reports[id].images) |-> reports[id].images[k].publicId])
        : id \in DOMAIN reports}

\* a body edits the text fields, or the images (and the category)
PatchBodies ==
  {b \in [title : {UNDEF, "T2"}, description : {UNDEF, "D2"},
          category : {UNDEF, "", "other", "bogus"},
          location : {UNDEF, "L2"}, address : {UNDEF, "A2"},
          newImages : {NoList} \cup {List(s) : s \in ImageLists},
          imagesToDelete : DeleteLists] :
     \/ (~b.newImages.def /\ ~b.imagesToDelete.def
         /\ (b.location = UNDEF \/ b.address = UNDEF))
     \/ (b.title = UNDEF /\ b.description = UNDEF /\ b.location = UNDEF
         /\ b.address = UNDEF /\ b.category \in {UNDEF, "bogus"})}

\* lines 105-116: await request.json(), then the authentication check
PatchParse(p) ==
  /\ req[p].pc = "parse" /\ req[p].method = "PATCH"
  /\ \E b \in PatchBodies :
       LET r == [req[p] EXCEPT !.title = b.title, !.description = b.description,
                               !.category = b.category, !.location = b.location,
                               !.address = b.address, !.newImages = b.newImages,
                               !.imagesToDelete = b.imagesToDelete,
                               !.finalLocation = b.location,
                               !.userId = HeaderUserId(req[p].header)]
       IN IF r.userId = PLACEHOLDER
          THEN Put(p, Respond(r, 401, "auth"))
          ELSE Put(p, [r EXCEPT !.pc = "load"])
  /\ UNCHANGED <<reports, hosted, nextId, nextPid, served>>

\* lines 137-145: a category is validated only if it is truthy
PatchCategoryInvalid(category) ==
  ~Falsy(category) /\ category \notin validCategories

\* the checks without the ownership check
PatchChecks_NoOwner(r) ==
  IF ~r.report.found THEN 404
  ELSE IF PatchCategoryInvalid(r.category) THEN 400
  ELSE 0

\* lines 121-145: what the checks after getReportById answer (0: all pass)
PatchChecks(r) ==
  IF ~r.report.found THEN 404
  ELSE IF ~IsOwner(r.report.doc, r.userId) THEN 403
  ELSE IF PatchCategoryInvalid(r.category) THEN 400
  ELSE 0

PatchCheckName(code) ==
  IF code = 404 THEN "absent" ELSE IF code = 403 THEN "owner" ELSE "category"

\* lines 119-147: await getReportById(id), then the checks
PatchLoad(p) ==
  LET r == [req[p] EXCEPT !.reads = @ + 1, !.report = GetReportById(req[p].id)] IN
  /\ req[p].pc = "load" /\ req[p].method = "PATCH"
  /\ IF PatchChecks(r) # 0
     THEN Put(p, Respond(r, PatchChecks(r), PatchCheckName(PatchChecks(r))))
     ELSE Put(p, [r EXCEPT !.pc = IF NeedsGeocode(r) THEN "geocode"
                                  ELSE "deleteOld"])
  /\ UNCHANGED <<reports, hosted, nextId, nextPid, served>>

\* lines 162-172: one iteration of the deletion loop, failures are logged
PatchDeleteOld(p) ==
  LET r == req[p] IN
  /\ r.pc = "deleteOld"
  /\ IF r.i > Len(r.imagesToDelete.items)
     THEN /\ Put(p, [r EXCEPT !.pc = "upload", !.i = 1])
          /\ UNCHANGED hosted
     ELSE LET pid == r.imagesToDelete.items[r.i]
          IN \/ /\ hosted' = HostAfterDelete(hosted, pid)
                /\ Put(p, DeleteCalled(r, pid, TRUE))
             \/ /\ UNCHANGED hosted
                /\ Put(p, DeleteCalled(r, pid, FALSE))
  /\ UNCHANGED <<reports, nextId, nextPid, served>>

\* a patch that carries the category whether or not the request had one
UpdateKeys_AlwaysCategory(r) ==
  {"category"}
  \cup {k \in {"title"} : r.title # UNDEF}
  \cup {k \in {"description"} : r.description # UNDEF}
  \cup {k \in {"location"} : r.finalLocation # UNDEF}
  \cup {k \in {"imagesToDelete"} : r.imagesToDelete.def}
  \cup {k \in {"newImages"} : Len(r.uploaded) > 0}

\* lines 203-210: the patch handed to updateReport
UpdateKeys(r) ==
  {k \in {"title"} : r.title # UNDEF}
  \cup {k \in {"description"} : r.description # UNDEF}
  \cup {k \in {"category"} : r.category # UNDEF}
  \cup {k \in {"location"} : r.finalLocation # UNDEF}
  \cup {k \in {"imagesToDelete"} : r.imagesToDelete.def}
  \cup {k \in {"newImages"} : Len(r.uploaded) > 0}

UpdateValue(r, k) ==
  CASE k = "title" -> r.title
    [] k = "description" -> r.description
    [] k = "category" -> r.category
    [] k = "location" -> r.finalLocation
    [] k = "imagesToDelete" -> r.imagesToDelete.items
    [] k = "newImages" -> r.uploaded

UpdateData(r) == [k \in UpdateKeys(r) |-> UpdateValue(r, k)]

\* updateReport(id, patch): the fields of the patch are merged into the
\* document; images named in imagesToDelete leave it, newImages are appended
Has(patch, k) == k \in DOMAIN patch

KeptImages(images, patch) ==
  IF Has(patch, "imagesToDelete")
  THEN SelectSeq(images, LAMBDA im : im.publicId \notin Range(patch["imagesToDelete"]))
  ELSE images

MergedImages(images, patch) ==
  IF Has(patch, "newImages")
  THEN KeptImages(images, patch) \o patch["newImages"]
  ELSE KeptImages(images, patch)

UpdatedDoc(doc, patch) ==
  [doc EXCEPT
     !.title = IF Has(patch, "title") THEN patch["title"] ELSE @,
     !.description = IF Has(patch, "description") THEN patch["description"] ELSE @,
     !.category = IF Has(patch, "category") THEN patch["category"] ELSE @,
     !.location = IF Has(patch, "location") THEN patch["location"] ELSE @,
     !.images = MergedImages(@, patch),
     !.imageUrl = IF Has(patch, "imagesToDelete") \/ Has(patch, "newImages")
                  THEN MainImageUrl(MergedImages(doc.images, patch)) ELSE @]

\* lines 213-253: await updateReport(id, updateData); null gives 500, a throw
\* ends in the catch
UpdateStep(p) ==
  LET r == req[p]
      patch == UpdateData(r)
      called == [r EXCEPT !.dal = "updateReport", !.dalData = patch, !.writes = @ + 1]
  IN
  /\ r.pc = "update"
  /\ \/ /\ r.id \in DOMAIN reports
        /\ reports' = [reports EXCEPT ![r.id] = UpdatedDoc(@, patch)]
        /\ Put(p, [Respond(called, 200, "ok") EXCEPT
                     !.respImageUrl = UpdatedDoc(reports[r.id], patch).imageUrl])
     \/ /\ r.id \notin DOMAIN reports
        /\ Put(p, Respond(called, 500, "null"))
        /\ UNCHANGED reports
     \/ /\ Put(p, Respond(called, 500, "exception"))
        /\ UNCHANGED reports
  /\ UNCHANGED <<hosted, nextId, nextPid, served>>

\* ----------------------------------------------------------------- DELETE
\* lines 263-272: the id check, then the authentication check (0: both pass)
DeleteChecks(id, h) ==
  IF DeleteInvalidId(id) THEN 400
  ELSE IF HeaderUserId(h) = PLACEHOLDER THEN 401
  ELSE 0

DeleteCheck(p) ==
  LET r == [req[p] EXCEPT !.userId = HeaderUserId(req[p].header)]
      code == DeleteChecks(r.id, r.header)
  IN
  /\ req[p].pc = "checkId" /\ req[p].method = "DELETE"
  /\ IF code # 0
     THEN Put(p, Respond(r, code, IF code = 400 THEN "id" ELSE "auth"))
     ELSE Put(p, [r EXCEPT !.pc = "load"])
  /\ UNCHANGED <<reports, hosted, nextId, nextPid, served>>

\* lines 275-280 (0: both pass)
DeleteReportChecks(r) ==
  IF ~r.report.found THEN 404
  ELSE IF ~IsOwner(r.report.doc, r.userId) THEN 403
  ELSE 0

\* lines 274-280: await getReportById(id), then the checks
DeleteLoad(p) ==
  LET r == [req[p] EXCEPT !.reads = @ + 1, !.report = GetReportById(req[p].id)]
      code == DeleteReportChecks(r)
  IN
  /\ req[p].pc = "load" /\ req[p].method = "DELETE"
  /\ \/ IF code # 0
        THEN Put(p, Respond(r, code, IF code = 404 THEN "absent" ELSE "owner"))
        ELSE Put(p, [r EXCEPT !.pc = "deleteImages", !.i = 1])
     \/ /\ Uncastable(req[p].id)
        /\ Put(p, Respond([req[p] EXCEPT !.reads = @ + 1], 500, "exception"))
  /\ UNCHANGED <<reports, hosted, nextId, nextPid, served>>

\* a deletion loop that leaves the last image out
DeleteTargets_SkipLast(doc) ==
  IF Len(doc.images) > 0
  THEN [k \in 1..Len(doc.images) - 1 |-> doc.images[k].publicId]
  ELSE IF ~Falsy(doc.imageUrl) THEN <<doc.imageUrl>>
  ELSE <<>>

\* lines 283-290: the public ids deleteImage is called with
DeleteTargets(doc) ==
  IF Len(doc.images) > 0
  THEN [k \in 1..Len(doc.images) |-> doc.images[k].publicId]
  ELSE IF ~Falsy(doc.imageUrl) THEN <<doc.imageUrl>>
  ELSE <<>>

\* lines 283-290: one deleteImage call, failures are ignored
DeleteImagesStep(p) ==
  LET r == req[p]
      targets == DeleteTargets(r.report.doc)
  IN
  /\ r.pc = "deleteImages"
  /\ IF r.i > Len(targets)
     THEN /\ Put(p, [r EXCEPT !.pc = "deleteFind", !.i = 1])
          /\ UNCHANGED hosted
     ELSE \/ /\ hosted' = HostAfterDelete(hosted, targets[r.i])
             /\ Put(p, DeleteCalled(r, targets[r.i], TRUE))
          \/ /\ UNCHANGED hosted
             /\ Put(p, DeleteCalled(r, targets[r.i], FALSE))
  /\ UNCHANGED <<reports, nextId, nextPid, served>>

\* deleteReportIfOwner called on its own, as any caller of the data-access
\* module may: any report id, any user id
CallDeleteReportIfOwner(p) ==
  /\ req[p].pc = "idle"
  /\ served < MaxRequests
  /\ served' = served + 1
  /\ \E n \in 1..MaxRequests - 1, u \in Users \cup {DUMMY} :
       Put(p, [Idle EXCEPT !.method = "DAL", !.pc = "deleteFind",
                           !.id = ReportId(n), !.userId = u,
                           !.pre = reports, !.preHosted = hosted])
  /\ UNCHANGED <<reports, hosted, nextId, nextPid>>

\* deleteReportIfOwner has returned; lines 293-297: the DELETE handler
\* answers 500 on false and the success acknowledgment on true
DeleteAnswer(r, deleted) ==
  LET r2 == [r EXCEPT !.returned = IF deleted THEN "true" ELSE "false"] IN
  IF r.method = "DELETE"
  THEN Respond(r2, IF deleted THEN 200 ELSE 500,
               IF deleted THEN "ok" ELSE "notDeleted")
  ELSE [r2 EXCEPT !.pc = "done"]

\* an owner check that lets everybody through
MayDelete_NoOwnerCheck(id, userId) == id \in DOMAIN reports

\* deleteReportIfOwner, lines 121-130 of the data-access module:
\* findById, then the not-found and owner checks
MayDelete(id, userId) == id \in DOMAIN reports /\ reports[id].createdBy = userId

DeleteFind(p) ==
  LET r == [req[p] EXCEPT !.dal = "deleteReportIfOwner", !.reads = @ + 1] IN
  /\ req[p].pc = "deleteFind"
  /\ IF MayDelete(r.id, r.userId)
     THEN Put(p, [r EXCEPT !.pc = "deleteRemove"])
     ELSE Put(p, DeleteAnswer(r, FALSE))
  /\ UNCHANGED <<reports, hosted, nextId, nextPid, served>>

\* lines 132-133 of the data-access module: findByIdAndDelete, return true;
\* lines 294-297 of the handler
DeleteRemove(p) ==
  LET r == [req[p] EXCEPT !.writes = @ + 1] IN
  /\ req[p].pc = "deleteRemove"
  /\ reports' = IF r.id \in DOMAIN reports THEN Without(reports, r.id) ELSE reports
  /\ Put(p, DeleteAnswer(r, TRUE))
  /\ UNCHANGED <<hosted, nextId, nextPid, served>>

\* =========================================================== specification
Step(p) ==
  \/ Request(p)
  \/ Connect(p)
  \/ PostParse(p)
  \/ GeocodeStep(p)
  \/ UploadStep(p)
  \/ CleanupStep(p)
  \/ CreateStep(p)
  \/ GetCheckId(p)
  \/ GetLoad(p)
  \/ PatchCheckId(p)
  \/ PatchParse(p)
  \/ PatchLoad(p)
  \/ PatchDeleteOld(p)
  \/ UpdateStep(p)
  \/ DeleteCheck(p)
  \/ DeleteLoad(p)
  \/ DeleteImagesStep(p)
  \/ DeleteFind(p)
  \/ DeleteRemove(p)
  \/ Finish(p)

Next == Step(1)

Spec == Init /\ [][Next]_vars

\* the list endpoint alone: it reads no state the other handlers write
StepList(p) ==
  \/ RequestList(p)
  \/ Connect(p)
  \/ ListParse(p)
  \/ ListQuery(p)
  \/ Finish(p)

NextList == StepList(1)

SpecList == Init /\ [][NextList]_vars

\* the handlers, and the data-access function deleteReportIfOwner called directly
NextDal == Step(1) \/ CallDeleteReportIfOwner(1)

SpecDal == Init /\ [][NextDal]_vars

\* ------------------------------------------- DELETE requests in parallel
\* a store that holds one report, created by u1 with a POST of n images
StoredReport(n) ==
  SavedReport([title |-> "T1", description |-> "D1", category |-> "garbage",
               location |-> "L1",
               imageUrl |-> MainImageUrl([k \in 1..n |-> UploadResult(k)]),
               images |-> [k \in 1..n |-> UploadResult(k)],
               createdBy |-> "u1"])

InitConc ==
  \E n \in 0..MaxImages :
    /\ reports = With(<<>>, ReportId(1), StoredReport(n))
    /\ hosted = [pid \in {PublicId(k) : k \in 1..n} |->
                   Payload(CHOOSE k \in 1..n : PublicId(k) = pid)]
    /\ nextId = 1
    /\ nextPid = n
    /\ served = 0
    /\ req = [p \in Procs |-> Idle]

\* a DELETE request arrives on a free slot, while another may be under way
RequestDelete(p) ==
  /\ req[p].pc = "idle"
  /\ served < MaxRequests
  /\ served' = served + 1
  /\ \E id \in PathIds, u \in Users \cup {UNDEF} :
       Put(p, [Idle EXCEPT !.method = "DELETE", !.pc = "connect", !.id = id,
                           !.header = u, !.pre = reports,
                           !.preHosted = hosted])
  /\ UNCHANGED <<reports, hosted, nextId, nextPid>>

\* the DELETE handler, one await at a time
StepDelete(p) ==
  \/ RequestDelete(p)
  \/ Connect(p)
  \/ DeleteCheck(p)
  \/ DeleteLoad(p)
  \/ DeleteImagesStep(p)
  \/ DeleteFind(p)
  \/ DeleteRemove(p)
  \/ Finish(p)

\* the event loop runs any of the requests up to its next await
NextConc == \E p \in Procs : StepDelete(p)

SpecConc == InitConc /\ [][NextConc]_vars

\* ================================================================== claims
Done(p) == req[p].pc = "done"
Finished(p, m) == Done(p) /\ req[p].method = m

PidsOf(images) == [k \in 1..Len(images) |-> images[k].publicId]
CalledPids(r) == [k \in 1..Len(r.deleteCalls) |-> r.deleteCalls[k].publicId]
AllDeletesOk(r) == \A k \in 1..Len(r.deleteCalls) : r.deleteCalls[k].ok

\* a POST / PATCH that ended in the catch of a failed uploadImage
UploadFailed(p, m) == Finished(p, m) /\ req[p].via = "upload"

BadIds == {"", "undefined", "null"}

C2_AsStated ==
  \A p \in Procs :
    (req[p].method \in {"GET", "PATCH", "DELETE"} /\ req[p].id \in BadIds) =>
      /\ req[p].connects = 0 /\ req[p].reads = 0 /\ req[p].writes = 0
      /\ Done(p) => req[p].status = 400

\* C3: a PATCH by somebody who is not the owner of the stored report answers 403
\* and leaves the report as it was; every PATCH or DELETE answered 400, 401, 403
\* or 404 has called neither uploadImage nor deleteImage nor a database write.
NonOwnerPatch(p) ==
  /\ Finished(p, "PATCH")
  /\ ~InvalidId(req[p].id) /\ ~Falsy(req[p].header)
  /\ req[p].id \in DOMAIN req[p].pre
  /\ req[p].pre[req[p].id].createdBy # req[p].header

C3_RejectedBeforeSideEffects ==
  \A p \in Procs :
    /\ NonOwnerPatch(p) => req[p].status = 403 /\ reports = req[p].pre
    /\ (Done(p) /\ req[p].method \in {"PATCH", "DELETE"}
        /\ req[p].status \in {400, 401, 403, 404}) =>
         /\ req[p].uploadCalls = 0 /\ req[p].deleteCalls = <<>>
         /\ req[p].writes = 0 /\ req[p].dal = ""
         /\ reports = req[p].pre /\ hosted = req[p].preHosted

\* C3 witness: a non-owner PATCH that asked for deletions and uploads got 403
C3_Witness ==
  \E p \in Procs :
    /\ NonOwnerPatch(p) /\ req[p].status = 403
    /\ Len(req[p].imagesToDelete.items) > 0 /\ Len(req[p].newImages.items) > 0

\* C4 as stated (for the calls in which no deleteImage failed): when an upload
\* fails during PATCH the answer is 500, the images this call uploaded are gone,
\* every image the report had on the host before the call is still hosted, the
\* ones named in imagesToDelete included, and the stored report is unchanged.
ImagesBefore(p) ==
  IF req[p].id \in DOMAIN req[p].pre
  THEN {pid \in Range(PidsOf(req[p].pre[req[p].id].images)) :
          pid \in DOMAIN req[p].preHosted}
  ELSE {}

C4_AsStated ==
  \A p \in Procs : (UploadFailed(p, "PATCH") /\ AllDeletesOk(req[p])) =>
    /\ req[p].status = 500
    /\ \A k \in 1..Len(req[p].uploaded) :
         req[p].uploaded[k].publicId \notin DOMAIN hosted
    /\ ImagesBefore(p) \subseteq DOMAIN hosted
    /\ reports = req[p].pre

\* C5 as stated: a POST whose newImages is missing or empty is answered 400, and
\* every stored report has a non-empty images sequence and a non-empty imageUrl.
C5_AsStated ==
  /\ \A p \in Procs :
       (Finished(p, "POST") /\ Len(req[p].newImages.items) = 0) =>
         req[p].status = 400 /\ reports = req[p].pre
  /\ \A id \in DOMAIN reports :
       Len(reports[id].images) > 0 /\ reports[id].imageUrl # ""

\* C6 as stated: the category handed to createReport / updateReport is one of
\* the enum, and a POST or PATCH that reaches the category check with a category
\* outside the enum (falsy values included) is answered 400 and changes nothing.
CarriesBadCategory(r) == r.category # UNDEF /\ r.category \notin validCategories

ReachedCategoryCheck(p) ==
  \/ Finished(p, "POST") /\ ~Falsy(req[p].title) /\ ~Falsy(req[p].description)
     /\ req[p].newImages.def /\ ~(Falsy(req[p].location) /\ Falsy(req[p].address))
  \/ Finished(p, "PATCH") /\ req[p].report.found
     /\ IsOwner(req[p].report.doc, req[p].userId)

C6_AsStated ==
  \A p \in Procs :
    /\ (req[p].dal \in {"createReport", "updateReport"}
        /\ "category" \in DOMAIN req[p].dalData) =>
         req[p].dalData["category"] \in validCategories
    /\ (ReachedCategoryCheck(p) /\ CarriesBadCategory(req[p])) =>
         req[p].status = 400 /\ reports = req[p].pre /\ hosted = req[p].preHosted

\* C7 as stated: the list endpoint answers 400 without calling getAllReports when
\* the page written in the query is below 1 or the limit written in it is below
\* 1 or above 100; otherwise getAllReports gets exactly the written page / limit.
Written(s) == ~ParseInt(s).nan
OutOfRange(pg, lm) ==
  \/ Written(pg) /\ ParseInt(pg).val < 1
  \/ Written(lm) /\ (ParseInt(lm).val < 1 \/ ParseInt(lm).val > LimitCeiling)

C7_AsStated ==
  \A p \in Procs : Finished(p, "LIST") =>
    IF OutOfRange(req[p].pageParam, req[p].limitParam)
    THEN req[p].status = 400 /\ req[p].dal = ""
    ELSE /\ req[p].dal = "getAllReports"
         /\ Written(req[p].pageParam) =>
              req[p].dalData.page = ParseInt(req[p].pageParam).val
         /\ Written(req[p].limitParam) =>
              req[p].dalData.limit = ParseInt(req[p].limitParam).val

\* C8 as stated: PATCH and DELETE fail in a fixed order: an invalid or missing id
\* gives 400, else a missing user-id header 401, else an absent report 404, else a
\* requester other than createdBy 403, else (PATCH) a category outside the enum
\* 400.
FirstFailure(r) ==
  IF r.id \in BadIds THEN 400
  ELSE IF Falsy(r.header) THEN 401
  ELSE IF r.id \notin DOMAIN r.pre THEN 404
  ELSE IF r.pre[r.id].createdBy # r.header THEN 403
  ELSE IF r.method = "PATCH" /\ CarriesBadCategory(r) THEN 400
  ELSE 0

C8_AsStated ==
  \A p \in Procs :
    (Done(p) /\ req[p].method \in {"PATCH", "DELETE"} /\ FirstFailure(req[p]) # 0) =>
      req[p].status = FirstFailure(req[p])

\* C9: a POST with at least one image whose uploads all succeed persists a report
\* whose images are the uploads in request order, and both the stored and the
\* returned imageUrl are the URL of the first upload.
Created(p) == Finished(p, "POST") /\ req[p].status = 201

C9_ImagesInRequestOrder ==
  \A p \in Procs :
    (Created(p) /\ Len(req[p].newImages.items) >= 1) =>
      LET doc == reports[req[p].id]
          sent == req[p].newImages.items
      IN /\ Len(doc.images) = Len(sent)
         /\ \A k \in 1..Len(sent) :
              /\ doc.images[k].publicId \in DOMAIN hosted
              /\ hosted[doc.images[k].publicId] = sent[k]
              /\ doc.images[k].url = SecureUrl(doc.images[k].publicId)
         /\ doc.imageUrl = doc.images[1].url
         /\ req[p].respImageUrl = doc.images[1].url

\* C9 witness: a report created from two images
C9_Witness ==
  \E p \in Procs :
    /\ Created(p) /\ Len(req[p].newImages.items) = 2
    /\ Len(reports[req[p].id].images) = 2

\* C10: the patch handed to updateReport has a field only if the request had it
\* (location also when geocoded from a given address, newImages only when images
\* were uploaded); it never has createdBy, resolved, resolvedAt or resolvedBy; a
\* successful PATCH leaves every field the request did not name as it was.
PatchFields == {"title", "description", "category", "location",
                "imagesToDelete", "newImages"}

PatchOnlyPresent(r) ==
  LET has(k) == k \in DOMAIN r.dalData IN
  /\ DOMAIN r.dalData \subseteq PatchFields
  /\ has("title") => r.title # UNDEF /\ r.dalData["title"] = r.title
  /\ has("description") =>
       r.description # UNDEF /\ r.dalData["description"] = r.description
  /\ has("category") => r.category # UNDEF /\ r.dalData["category"] = r.category
  /\ has("location") =>
       \/ r.location # UNDEF /\ r.dalData["location"] = r.location
       \/ ~Falsy(r.address) /\ r.dalData["location"] = Geocode(r.address)
  /\ has("imagesToDelete") => r.imagesToDelete.def
  /\ has("newImages") =>
       /\ Len(r.newImages.items) > 0 /\ r.uploadCalls > 0
       /\ r.dalData["newImages"] = r.uploaded /\ Len(r.uploaded) > 0

Updated(p) == Finished(p, "PATCH") /\ req[p].status = 200

UnnamedFieldsKept(r) ==
  LET old == r.pre[r.id]
      new == reports[r.id]
  IN /\ r.title = UNDEF => new.title = old.title
     /\ r.description = UNDEF => new.description = old.description
     /\ r.category = UNDEF => new.category = old.category
     /\ (r.location = UNDEF /\ r.address = UNDEF) => new.location = old.location
     /\ (~r.imagesToDelete.def /\ Len(r.newImages.items) = 0) =>
          new.images = old.images /\ new.imageUrl = old.imageUrl
     /\ new.createdBy = old.createdBy /\ new.resolved = old.resolved
     /\ new.resolvedAt = old.resolvedAt /\ new.resolvedBy = old.resolvedBy

C10_PatchOnlyPresentFields ==
  \A p \in Procs :
    /\ req[p].dal = "updateReport" => PatchOnlyPresent(req[p])
    /\ Updated(p) => UnnamedFieldsKept(req[p])

\* C10 witness: a PATCH that named only the description changed only it
C10_Witness ==
  \E p \in Procs :
    /\ Updated(p)
    /\ DOMAIN req[p].dalData = {"description"}
    /\ reports[req[p].id].description = "D2"
    /\ reports[req[p].id].title = "T1"
    /\ Len(reports[req[p].id].images) > 0

\* C11: in an authorized DELETE, deleteImage is attempted once for every image of
\* the report, in sequence, before deleteReportIfOwner is called; a failing
\* deletion is swallowed: the later images are still attempted, the record is
\* deleted and the success acknowledgment is returned.
AuthorizedDelete(p) ==
  /\ req[p].method = "DELETE"
  /\ req[p].report.found /\ IsOwner(req[p].report.doc, req[p].userId)

C11_ImagesThenRecord ==
  \A p \in Procs : AuthorizedDelete(p) =>
    LET r == req[p]
        images == r.report.doc.images
    IN /\ r.pc = "deleteImages" =>
            /\ r.dal = "" /\ r.writes = 0 /\ r.id \in DOMAIN reports
            /\ Len(images) > 0 => CalledPids(r) = SubSeq(PidsOf(images), 1, r.i - 1)
       /\ (r.dal = "deleteReportIfOwner" /\ Len(images) > 0) =>
            CalledPids(r) = PidsOf(images)
       /\ Done(p) => r.status = 200 /\ r.id \notin DOMAIN reports

\* C11 witness: the first of two image deletions failed, the second was still
\* made, the record is gone and the answer is the success acknowledgment
C11_Witness ==
  \E p \in Procs :
    /\ AuthorizedDelete(p) /\ Done(p) /\ req[p].status = 200
    /\ Len(req[p].deleteCalls) = 2
    /\ ~req[p].deleteCalls[1].ok /\ req[p].deleteCalls[2].ok
    /\ req[p].deleteCalls[1].publicId \in DOMAIN hosted
    /\ req[p].id \in DOMAIN req[p].pre /\ req[p].id \notin DOMAIN reports

\* C12: deleteReportIfOwner(id, userId) deletes the record and returns true
\* exactly when the record exists and its createdBy is userId, and otherwise
\* returns false and leaves the collection as it was; a record leaves the
\* collection only on behalf of its createdBy; the DELETE handler calls the
\* function only after its own ownership check has passed.
OwnedBefore(r) == r.id \in DOMAIN r.pre /\ r.pre[r.id].createdBy = r.userId

C12_DeletedOnlyByOwner ==
  \A p \in Procs :
    LET r == req[p] IN
    /\ r.returned = "true" => OwnedBefore(r) /\ reports = Without(r.pre, r.id)
    /\ r.returned = "false" => ~OwnedBefore(r) /\ reports = r.pre
    /\ (Done(p) /\ r.dal = "deleteReportIfOwner") => r.returned \in {"true", "false"}
    /\ r.pc # "idle" =>
         \A id \in DOMAIN r.pre \ DOMAIN reports :
           r.dal = "deleteReportIfOwner" /\ id = r.id /\ r.pre[id].createdBy = r.userId
    /\ (r.method = "DELETE" /\ r.dal = "deleteReportIfOwner") =>
         r.report.found /\ IsOwner(r.report.doc, r.userId)

\* C12 witness: called for a stored report by somebody else than its creator,
\* deleteReportIfOwner returned false and the report is still stored
C12_Witness ==
  \E p \in Procs :
    /\ Done(p) /\ req[p].method = "DAL" /\ req[p].returned = "false"
    /\ req[p].id \in DOMAIN req[p].pre
    /\ req[p].pre[req[p].id].createdBy # req[p].userId
    /\ req[p].id \in DOMAIN reports

\* a POST / PATCH that did not answer 200 / 201, none of its deleteImage calls
\* having failed
FailedCleanly(p) ==
  /\ Done(p) /\ req[p].method \in {"POST", "PATCH"}
  /\ req[p].status \notin {200, 201}
  /\ AllDeletesOk(req[p])

NoneOfItsUploadsHosted(r) ==
  \A k \in 1..Len(r.uploaded) : r.uploaded[k].publicId \notin DOMAIN hosted

\* C13 as stated: if deleteImage never fails, a POST or PATCH that ends with a
\* non-success response leaves none of the images it uploaded on the image host,
\* after a failed upload and after a failed database write alike.
C13_AsStated ==
  \A p \in Procs : FailedCleanly(p) => NoneOfItsUploadsHosted(req[p])

\* two answered DELETE requests for the same report, which was stored when each
\* of them arrived, both carrying the user id of its creator
OwnerDeletes(p, q) ==
  /\ p # q
  /\ Finished(p, "DELETE") /\ Finished(q, "DELETE")
  /\ req[p].id = req[q].id
  /\ OwnedBefore(req[p]) /\ OwnedBefore(req[q])

\* C14 as stated: of two DELETE requests for the same stored report, both by
\* its owner, that interleave at their awaits, the record is deleted exactly
\* once, at most one is answered with the success acknowledgment (200) and the
\* other with 404 or 500.
C14_AsStated ==
  \A p, q \in Procs : OwnerDeletes(p, q) =>
    /\ req[p].id \notin DOMAIN reports
    /\ ~(req[p].status = 200 /\ req[q].status = 200)
    /\ ~(req[p].returned = "true" /\ req[q].returned = "true")
    /\ req[p].status = 200 => req[q].status \in {404, 500}
====
